---- MODULE Spec2Model ----
(***************************************************************************)
(* Model of power_max_tracker: the PowerMaxCoordinator (coordinator.py)    *)
(* that keeps the N largest hourly average powers, and the gated sensors   *)
(* (sensor.py).                                                            *)
(*                                                                         *)
(* Numbers.  Powers are integer watts.  A kW value (a Python float,        *)
(* watts / 1000.0) is held exactly as an integer count of 1/KwResolution   *)
(* kW.                                                                     *)
(***************************************************************************)
EXTENDS Integers, Sequences, FiniteSets, Bags, TLC

(* ----------------------------- bounds --------------------------------- *)
\* largest configured number of max values (CONF_NUM_MAX_VALUES)
MaxN == 2
\* hourly means offered by the recorder: -1/2 kW .. MaxMean/2 kW
MaxMean == 2
\* largest number of hours a catch-up or a manual recompute walks through
MaxHours == 2
\* number of accepted hourly averages the observer of C2 keeps track of
MaxAccepted == 3
\* number of hourly averages fed in a row that the observer of C15 records
MaxFed == 4

(* ------------------------ program constants --------------------------- *)
\* coordinator.py:115  hourly_avg_kw = hourly_avg_watts / 1000.0
WattsPerKw == 1000
\* resolution in which the float kW values are held
KwResolution == 1000

(* ------------------------------ inputs -------------------------------- *)
\* the "mean" the recorder returns for one hour, in watts
MeanWatts == {(k * WattsPerKw) \div 2 : k \in -1..MaxMean}
\* result of statistics_during_period for one hour: a mean, or nothing
NoStats == [present |-> FALSE, mean |-> 0]
StatsResults == {NoStats} \cup {[present |-> TRUE, mean |-> w] : w \in MeanWatts}
\* entry.data[CONF_BINARY_SENSOR]: None, or the id of the gating binary sensor
NoBinarySensor == "None"
BinarySensors == {NoBinarySensor, "binary_sensor.gate"}
\* hass.states.get(binary_sensor): None ("missing") or a state string
GateStates == {"missing", "unavailable", "unknown", "off", "on"}
\* now.day as seen by the daily reset check
Days == {1, 2}
\* sensor.py:117  round(sum(max_values) / len(max_values), 2)
HundredthsPerKw == 100
\* the tracker fed by hand: its capacity, and the hourly means offered
FeedCapacities == {3}
FeedWatts == {k * WattsPerKw : k \in {-1, 0, 3, 5, 8, 9}}
FeedStats == {NoStats} \cup {[present |-> TRUE, mean |-> w] : w \in FeedWatts}

(* ------------------------- the hourly sensor: inputs ------------------- *)
\* ticks of the clock in one hour
TicksPerHour == 2
\* ticks the clock runs for
MaxTicks == 4
\* source readings: -1 kW .. MaxPower kW
MaxPower == 2
\* number of samples of one hour window the observer of C11 keeps track of
MaxSamples == 3

\* sensor.py:324  (now - self._hour_start).total_seconds() / 3600
SecondsPerHour == 3600
\* sensor.py:293  avg_power * delta_seconds / 3600000
MsPerHour == 3600000
\* resolution in which the float kWh values are held: 1/7200000 kWh is one
\* half watt-second, so every trapezoid of whole watts and seconds is exact
EnergyResolution == 7200000
\* None, for self._last_time and self._hour_start
NoTime == -1

TickSeconds == SecondsPerHour \div TicksPerHour

\* hass.states.get(source_sensor): None, a state that is no reading, a text
\* that is no number, or a number of watts
SourceStates ==
    {[kind |-> k, watts |-> 0] : k \in {"missing", "unavailable", "unknown", "text"}}
        \cup {[kind |-> "number", watts |-> k * WattsPerKw] : k \in -1..MaxPower}

\* Store.async_load(): None or an empty dict (present = FALSE), or a blob
NoBlob == [present |-> FALSE, accumulated_energy |-> 0, last_power |-> 0,
           last_time |-> NoTime, hour_start |-> NoTime]
StoredBlobs ==
    {NoBlob,
     [present |-> TRUE, accumulated_energy |-> 2 * WattsPerKw * TickSeconds,
      last_power |-> WattsPerKw, last_time |-> TickSeconds, hour_start |-> 0],
     [present |-> TRUE, accumulated_energy |-> 2 * WattsPerKw * TickSeconds,
      last_power |-> WattsPerKw, last_time |-> TickSeconds, hour_start |-> NoTime]}

VARIABLES
    num_max_values,            \* self.num_max_values
    monthly_reset,             \* self.monthly_reset
    binary_sensor,             \* self.binary_sensor / GatedSensorEntity._binary_sensor
    gate_state,                \* hass.states.get(binary_sensor)
    max_values,                \* self.max_values
    entry_data,                \* entry.data: has_max_values, max_values
    source_sensor_entity_id,   \* TRUE once add_entity saw the "_source" sensor
    previous_month_max_values, \* coordinator attribute read by AverageMaxPowerSensor
    midnight,                  \* async_update_max_values_from_midnight in flight
    manual,                    \* async_reset_max_values_manually in flight
    accepted,                  \* observer: bag of kW values accepted by hourly updates since the last reset
    pure,                      \* observer: only hourly updates changed max_values since the last reset
    midnight_ref,              \* observer: the catch-up's range folded from the reset snapshot
    manual_ref,                \* observer: the recompute's range folded from the reset snapshot
    last_op,                   \* observer: what the last step did
    entities,                  \* self.entities, each entity by its unique id
    serial,                    \* observer: what the catch-up in flight and the operations run since its start give one after the other
    fed,                       \* observer: the means the hourly updates took at an open gate since the last reset
    clock,                     \* dt_util.utcnow(), in seconds
    set_back,                  \* the wall clock was set back
    source_state,              \* hass.states.get(source_sensor)
    added,                     \* HourlyAveragePowerSensor.async_added_to_hass has run
    accumulated_energy,        \* self._accumulated_energy
    last_power,                \* self._last_power
    last_time,                 \* self._last_time
    hour_start,                \* self._hour_start
    store,                     \* the Store's blob of the hourly sensor
    timer_hour,                \* the hour boundary the hour-start timer served last
    timer_now,                 \* the now the hour-start timer delivered last
    samples,                   \* observer: the <<watts, time>> samples handled in the open window
    clean                      \* observer: the window was opened in this run and saw only valid samples at an open gate

\* the coordinator's own state and its observers
coordVars == <<num_max_values, monthly_reset, max_values, entry_data,
               source_sensor_entity_id, previous_month_max_values, midnight, manual,
               accepted, pure, midnight_ref, manual_ref, last_op, fed, entities, serial>>

\* the gate, read by the coordinator and by the sensors
gateVars == <<binary_sensor, gate_state>>

\* the hourly average sensor, its store, its timer and the clock
sensorVars == <<clock, set_back, source_state, added, accumulated_energy, last_power, last_time,
                hour_start, store, timer_hour, timer_now, samples, clean>>

vars == <<coordVars, gateVars, sensorVars>>

(* ------------------------- pure helpers -------------------------------- *)
Min(a, b) == IF a <= b THEN a ELSE b

\* [0.0] * n
Zeros(n) == [i \in 1..n |-> 0]

\* s[:n]
Take(s, n) == SubSeq(s, 1, Min(n, Len(s)))

\* index of the first largest element of a non-empty sequence
FirstMaxIndex(s) ==
    CHOOSE i \in 1..Len(s) :
        /\ \A j \in 1..Len(s) : s[j] <= s[i]
        /\ \A j \in 1..(i - 1) : s[j] < s[i]

RemoveAt(s, i) == SubSeq(s, 1, i - 1) \o SubSeq(s, i + 1, Len(s))

\* sorted(s, reverse=True)
RECURSIVE sorted_reverse(_)
sorted_reverse(s) ==
    IF s = <<>> THEN <<>>
    ELSE LET i == FirstMaxIndex(s)
         IN  <<s[i]>> \o sorted_reverse(RemoveAt(s, i))

\* hourly_avg_watts / 1000.0, in units of 1/KwResolution kW
WattsToKw(w) == (w * KwResolution) \div WattsPerKw

(* ------------------------------ the gate ------------------------------- *)
\* mutant: only "off" closes the gate, a state of "unknown" lets updates through
_can_update_max_values_UnknownOpen(bs, st) ==
    IF bs = NoBinarySensor THEN TRUE
    ELSE IF st = "missing" \/ st = "unavailable" THEN FALSE
    ELSE st /= "off"

\* PowerMaxCoordinator._can_update_max_values, with bs = self.binary_sensor and
\* st = hass.states.get(bs)
_can_update_max_values(bs, st) ==
    IF bs = NoBinarySensor THEN TRUE
    ELSE IF st = "missing" \/ st = "unavailable" THEN FALSE
    ELSE st = "on"

\* GatedSensorEntity._can_update, with bs = self._binary_sensor
_can_update(bs, st) ==
    IF bs = NoBinarySensor THEN TRUE
    ELSE st /= "missing" /\ st = "on"

GateOpen == _can_update_max_values(binary_sensor, gate_state)

(* --------------------------- the snapshot ------------------------------ *)
\* mutant: a stored list of another length is cut or padded instead of dropped
InitMaxValues_Resize(data, n) ==
    LET stored == IF data.has_max_values THEN data.max_values ELSE Zeros(n)
    IN  Take(stored, n) \o Zeros(n - Min(n, Len(stored)))

\* PowerMaxCoordinator.__init__: the list taken from entry.data, or N zeros
InitMaxValues(data, n) ==
    LET stored == IF data.has_max_values THEN data.max_values ELSE Zeros(n)
    IN  IF Len(stored) /= n THEN Zeros(n) ELSE stored

\* mutant: the list is not cut back to n entries
InsertMax_NoTruncate(values, n, kw) == sorted_reverse(values \o <<kw>>)

\* mutant: a value that is already held is not inserted again
InsertMax_Dedup(values, n, kw) ==
    IF \E i \in 1..Len(values) : values[i] = kw
    THEN values
    ELSE Take(sorted_reverse(values \o <<kw>>), n)

\* mutant: the list is sorted in ascending order, the smallest values are kept
InsertMax_Ascending(values, n, kw) ==
    LET descending == sorted_reverse(values \o <<kw>>)
    IN  Take([i \in 1..Len(descending) |-> descending[Len(descending) + 1 - i]], n)

\* sorted(values + [kw], reverse=True)[:n]
InsertMax(values, n, kw) == Take(sorted_reverse(values \o <<kw>>), n)

\* mutant: the gate is not asked
HourlyMaxValues_IgnoreGate(values, n, stats, open) ==
    IF stats.present
    THEN IF stats.mean >= 0
         THEN Take(sorted_reverse(values \o <<WattsToKw(stats.mean)>>), n)
         ELSE values
    ELSE values

\* mutant: a negative mean is taken by its magnitude
HourlyMaxValues_NegativeAbs(values, n, stats, open) ==
    IF stats.present
    THEN IF open
         THEN InsertMax(values, n, WattsToKw(IF stats.mean >= 0 THEN stats.mean ELSE -stats.mean))
         ELSE values
    ELSE values

\* _async_update_hourly, lines 111-134: new_max_values for one hour's statistics
HourlyMaxValues(values, n, stats, open) ==
    IF stats.present
    THEN IF stats.mean >= 0
         THEN IF open THEN InsertMax(values, n, WattsToKw(stats.mean)) ELSE values
         ELSE values
    ELSE values

\* async_update_max_values_from_midnight, lines 169-181: one turn of the loop
MidnightMaxValues(values, n, stats, open) ==
    IF stats.present
    THEN IF stats.mean >= 0
         THEN IF open THEN InsertMax(values, n, WattsToKw(stats.mean)) ELSE values
         ELSE values
    ELSE values

\* mutant: an hour without a mean throws away what the loop gathered so far
ManualMaxValues_MissingPoisons(values, n, stats, open) ==
    IF stats.present
    THEN IF stats.mean >= 0
         THEN IF open THEN InsertMax(values, n, WattsToKw(stats.mean)) ELSE values
         ELSE values
    ELSE Zeros(n)

\* async_reset_max_values_manually, lines 227-253: one turn of the loop
ManualMaxValues(values, n, stats, open) ==
    IF stats.present
    THEN IF stats.mean >= 0
         THEN IF open THEN InsertMax(values, n, WattsToKw(stats.mean)) ELSE values
         ELSE values
    ELSE values

\* the snapshot the catch-up starts its loop from (line 153)
MidnightStartValues(values, n) == values

\* mutant: the recompute builds on the current snapshot, as the catch-up does
ManualStartValues_Copy(values, n) == values

\* the snapshot the manual recompute starts its loop from (lines 207, 209)
ManualStartValues(values, n) == Zeros(n)

\* sum(values)
RECURSIVE SeqSum(_)
SeqSum(values) == IF values = <<>> THEN 0 ELSE Head(values) + SeqSum(Tail(values))

\* round(a / b, 0) for a >= 0 and b > 0: to the nearest integer, a tie to the
\* even one
RoundDiv(a, b) ==
    LET q == a \div b
        r == a % b
    IN  IF 2 * r < b THEN q
        ELSE IF 2 * r > b THEN q + 1
        ELSE IF q % 2 = 0 THEN q ELSE q + 1

\* AverageMaxPowerSensor.native_value, sensor.py lines 115-118:
\* round(sum(max_values) / len(max_values), 2), in units of 1/KwResolution kW
AverageMax(values) ==
    IF values /= <<>>
    THEN RoundDiv(SeqSum(values), Len(values) * (KwResolution \div HundredthsPerKw))
             * (KwResolution \div HundredthsPerKw)
    ELSE 0

\* mutant: the entry is written, but not with the new list
UpdateEntry_Emptied(v) == [has_max_values |-> TRUE, max_values |-> <<>>]

\* hass.config_entries.async_update_entry(entry, data={**entry.data, "max_values": v})
UpdateEntry(v) == [has_max_values |-> TRUE, max_values |-> v]

\* stats as the handler reads them: nothing is found under a source id of None
StatsSeen(stats) == IF source_sensor_entity_id THEN stats ELSE NoStats

Idle == [pc |-> "idle", hours_left |-> 0, new_max_values |-> <<>>]

\* the observer fed is off
NotFed == [recording |-> FALSE, means |-> <<>>]

\* the observer serial is off
NotSerial == [tracking |-> FALSE, values |-> <<>>]

\* the observer serial, when it is on, moves to values v; <<>> stands for no
\* catch-up in flight, or one whose serial outcome is not followed any more
Tracked(v) == [serial EXCEPT !.values = IF serial.tracking THEN v ELSE <<>>]

\* Modelling decision: a catch-up and a manual recompute are not started while
\* the other one is suspended at an await (hourly updates, resets, gate changes
\* and restarts interleave with either).  FALSE lifts the restriction.
SerialRecomputes == TRUE

\* no catch-up or manual recompute is suspended at an await
NoneInFlight == midnight.pc = "idle" /\ manual.pc = "idle"

CanSuspend == SerialRecomputes => NoneInFlight

(* ----------------------------- the entities ---------------------------- *)
\* the sensors async_setup_entry creates, each by the ending of its unique id:
\* "<entry_id>_max_values_<index>", "_average_max", "_source" and
\* "_hourly_average_power"
MaxPowerSensors(n) == {[ending |-> "_max_values", index |-> i] : i \in 1..n}
AverageMaxPowerSensor == [ending |-> "_average_max", index |-> 0]
SourcePowerSensor == [ending |-> "_source", index |-> 0]
HourlyAveragePowerSensor == [ending |-> "_hourly_average_power", index |-> 0]

\* sensor.async_setup_entry, lines 39-51: the list sensors
CreatedSensors(n) ==
    MaxPowerSensors(n) \cup {AverageMaxPowerSensor, SourcePowerSensor, HourlyAveragePowerSensor}

\* PowerMaxCoordinator._is_valid_entity, and the same test in add_entity (lines
\* 31-38), on the ending of the unique id
_is_valid_entity(entity, n) ==
    \/ entity.ending \in {"_source", "_hourly_energy"}
    \/ entity.ending = "_max_values" /\ entity.index \in 1..n

\* PowerMaxCoordinator.add_entity for each sensor of news: self.entities after
add_entity(held, news) ==
    held \cup {entity \in news : _is_valid_entity(entity, num_max_values)}

\* PowerMaxCoordinator._update_entities, lines 266-284: the entities whose
\* state refresh is scheduled when max_values changed
valid_entities == {entity \in entities : _is_valid_entity(entity, num_max_values)}

(* ------------------------------- Init ---------------------------------- *)
\* a first construction: entry.data holds the configuration and no "max_values"
InitCoordinator ==
    /\ num_max_values \in 1..MaxN
    /\ monthly_reset \in BOOLEAN
    /\ entry_data = [has_max_values |-> FALSE, max_values |-> <<>>]
    /\ max_values = InitMaxValues(entry_data, num_max_values)
    /\ source_sensor_entity_id = FALSE
    /\ entities = {}
    /\ previous_month_max_values = [defined |-> FALSE, values |-> <<>>]
    /\ midnight = Idle
    /\ manual = Idle
    /\ accepted = EmptyBag
    /\ pure = TRUE
    /\ midnight_ref = <<>>
    /\ manual_ref = <<>>
    /\ last_op = "init"
    /\ fed = NotFed

InitGate ==
    /\ binary_sensor \in BinarySensors
    /\ gate_state \in (IF binary_sensor = NoBinarySensor THEN {"missing"} ELSE GateStates)

\* HourlyAveragePowerSensor.__init__, lines 199-204, over the blob an earlier
\* run left in the store
InitHourlySensor(blob, now) ==
    /\ clock = now
    /\ set_back = FALSE
    /\ source_state = [kind |-> "missing", watts |-> 0]
    /\ added = FALSE
    /\ accumulated_energy = 0
    /\ last_power = 0
    /\ last_time = NoTime
    /\ hour_start = NoTime
    /\ store = blob
    /\ timer_hour = NoTime
    /\ timer_now = NoTime
    /\ samples = <<>>
    /\ clean = FALSE

Init ==
    /\ InitCoordinator
    /\ serial = NotSerial
    /\ InitGate
    /\ InitHourlySensor(NoBlob, 0)

(* ------------------------------ actions -------------------------------- *)
\* The process restarts (or the entry is reloaded) after the options flow stored
\* CONF_NUM_MAX_VALUES = n: PowerMaxCoordinator.__init__ runs over the stored
\* entry.data; what was in flight in the old process is gone.
__init__(n) ==
    /\ num_max_values' = n
    /\ max_values' = InitMaxValues(entry_data, n)
    /\ source_sensor_entity_id' = FALSE
    /\ midnight' = Idle
    /\ manual' = Idle
    /\ accepted' = EmptyBag
    /\ pure' = (max_values' = Zeros(n))
    /\ midnight_ref' = <<>>
    /\ manual_ref' = <<>>
    /\ UNCHANGED <<monthly_reset, binary_sensor, gate_state, entry_data,
                   previous_month_max_values>>
    /\ last_op' = "init"
    /\ UNCHANGED fed
    /\ entities' = {}
    /\ serial' = Tracked(<<>>)
    /\ UNCHANGED sensorVars

\* sensor.async_setup_entry -> coordinator.add_entity(SourcePowerSensor), lines 41-42
async_setup_entry ==
    /\ ~source_sensor_entity_id
    /\ source_sensor_entity_id' = TRUE
    /\ UNCHANGED <<num_max_values, monthly_reset, binary_sensor, gate_state, max_values,
                   entry_data, previous_month_max_values, midnight, manual, accepted,
                   pure, midnight_ref, manual_ref>>
    /\ last_op' = "other"
    /\ UNCHANGED fed
    /\ entities' = add_entity(add_entity(add_entity(add_entity(entities, MaxPowerSensors(num_max_values)),
                                                   {AverageMaxPowerSensor}),
                                        {SourcePowerSensor}),
                             {HourlyAveragePowerSensor})
    /\ UNCHANGED serial
    /\ UNCHANGED sensorVars

\* the gating binary sensor changes state
GateChange(st) ==
    /\ binary_sensor /= NoBinarySensor
    /\ st /= gate_state
    /\ gate_state' = st
    /\ UNCHANGED <<num_max_values, monthly_reset, binary_sensor, max_values, entry_data,
                   source_sensor_entity_id, previous_month_max_values, midnight, manual,
                   accepted, pure, midnight_ref, manual_ref>>
    /\ last_op' = "other"
    /\ UNCHANGED fed
    /\ UNCHANGED entities
    /\ UNCHANGED serial
    /\ UNCHANGED sensorVars

\* the hourly update accepted this hour's mean
HourlyAccepts(stats) ==
    source_sensor_entity_id /\ stats.present /\ stats.mean >= 0 /\ GateOpen

\* PowerMaxCoordinator._async_update_hourly(now); stats is what the recorder
\* returns for the hour that ends at now truncated to the hour
_async_update_hourly(stats) ==
    /\ IF ~source_sensor_entity_id
       THEN UNCHANGED <<max_values, entry_data>>
       ELSE LET new_max_values == HourlyMaxValues(max_values, num_max_values, stats, GateOpen)
            IN  IF new_max_values /= max_values
                THEN /\ max_values' = new_max_values
                     /\ entry_data' = UpdateEntry(new_max_values)
                ELSE UNCHANGED <<max_values, entry_data>>
    /\ IF HourlyAccepts(stats)
       THEN IF pure /\ BagCardinality(accepted) < MaxAccepted
            THEN /\ accepted' = accepted (+) SetToBag({WattsToKw(stats.mean)})
                 /\ pure' = TRUE
            ELSE /\ accepted' = EmptyBag
                 /\ pure' = FALSE
       ELSE UNCHANGED <<accepted, pure>>
    /\ UNCHANGED <<num_max_values, monthly_reset, binary_sensor, gate_state,
                   source_sensor_entity_id, previous_month_max_values, midnight, manual,
                   midnight_ref, manual_ref>>
    /\ last_op' = IF HourlyAccepts(stats) THEN "other"
                 ELSE IF source_sensor_entity_id /\ stats.present /\ stats.mean >= 0
                      THEN "hourly_gate_closed"
                      ELSE "other"
    /\ fed' = IF fed.recording /\ source_sensor_entity_id /\ stats.present /\ GateOpen
              THEN IF Len(fed.means) < MaxFed
                   THEN [fed EXCEPT !.means = Append(@, stats.mean)]
                   ELSE NotFed
              ELSE fed
    /\ UNCHANGED entities
    /\ serial' = IF serial.values /= <<>> /\ source_sensor_entity_id
                 THEN Tracked(HourlyMaxValues(serial.values, num_max_values, stats, GateOpen))
                 ELSE serial
    /\ UNCHANGED sensorVars

\* mutant: the reset does not ask for the day of the month
_async_reset_monthly_AnyDay(day) ==
    /\ IF monthly_reset
       THEN /\ max_values' = Zeros(num_max_values)
            /\ entry_data' = UpdateEntry(max_values')
            /\ accepted' = EmptyBag
            /\ pure' = TRUE
       ELSE UNCHANGED <<max_values, entry_data, accepted, pure>>
    /\ UNCHANGED <<num_max_values, monthly_reset, binary_sensor, gate_state,
                   source_sensor_entity_id, previous_month_max_values, midnight, manual,
                   midnight_ref, manual_ref>>
    /\ last_op' = IF monthly_reset /\ day = 1 /\ max_values /= Zeros(num_max_values)
                 THEN "reset"
                 ELSE "other"
    /\ fed' = IF fed.recording /\ monthly_reset /\ day = 1
              THEN [fed EXCEPT !.means = <<>>]
              ELSE fed
    /\ UNCHANGED entities
    /\ serial' = IF monthly_reset THEN Tracked(<<>>) ELSE serial
    /\ UNCHANGED sensorVars

\* PowerMaxCoordinator._async_reset_monthly(now), day = now.day
_async_reset_monthly(day) ==
    /\ IF monthly_reset /\ day = 1
       THEN /\ max_values' = Zeros(num_max_values)
            /\ entry_data' = UpdateEntry(max_values')
            /\ accepted' = EmptyBag
            /\ pure' = TRUE
       ELSE UNCHANGED <<max_values, entry_data, accepted, pure>>
    /\ UNCHANGED <<num_max_values, monthly_reset, binary_sensor, gate_state,
                   source_sensor_entity_id, previous_month_max_values, midnight, manual,
                   midnight_ref, manual_ref>>
    /\ last_op' = IF monthly_reset /\ day = 1 /\ max_values /= Zeros(num_max_values)
                 THEN "reset"
                 ELSE "other"
    /\ fed' = IF fed.recording /\ monthly_reset /\ day = 1
              THEN [fed EXCEPT !.means = <<>>]
              ELSE fed
    /\ UNCHANGED entities
    /\ serial' = IF monthly_reset /\ day = 1 THEN Tracked(<<>>) ELSE serial
    /\ UNCHANGED sensorVars

\* async_update_max_values_from_midnight up to its first await; hours is the
\* number of whole hours between midnight and datetime.now()
MidnightStart(hours) ==
    /\ midnight.pc = "idle"
    /\ IF ~source_sensor_entity_id \/ hours = 0
       THEN UNCHANGED <<midnight, midnight_ref>>
       ELSE /\ CanSuspend
            /\ midnight' = [pc |-> "await", hours_left |-> hours,
                            new_max_values |-> MidnightStartValues(max_values, num_max_values)]
            /\ midnight_ref' = Zeros(num_max_values)
    /\ UNCHANGED <<num_max_values, monthly_reset, binary_sensor, gate_state, max_values,
                   entry_data, source_sensor_entity_id, previous_month_max_values, manual,
                   accepted, pure, manual_ref>>
    /\ last_op' = "other"
    /\ UNCHANGED fed
    /\ UNCHANGED entities
    /\ serial' = IF midnight'.pc = "await" THEN Tracked(max_values) ELSE serial
    /\ UNCHANGED sensorVars

\* async_update_max_values_from_midnight resumes with the statistics of the
\* hour it asked for: the rest of that turn of the loop and, after the last
\* turn (hours_left counts the turns of range(hours) still to run), lines 183-191
MidnightStep(stats) ==
    /\ midnight.pc = "await"
    /\ LET new_max_values == MidnightMaxValues(midnight.new_max_values, num_max_values,
                                               StatsSeen(stats), GateOpen)
       IN  IF midnight.hours_left > 1
           THEN /\ midnight' = [midnight EXCEPT !.hours_left = @ - 1,
                                                !.new_max_values = new_max_values]
                /\ midnight_ref' = HourlyMaxValues(midnight_ref, num_max_values,
                                                   StatsSeen(stats), GateOpen)
                /\ UNCHANGED <<max_values, entry_data, accepted, pure>>
           ELSE /\ midnight' = Idle
                /\ midnight_ref' = <<>>
                /\ IF new_max_values /= max_values
                   THEN /\ max_values' = new_max_values
                        /\ entry_data' = UpdateEntry(new_max_values)
                        /\ accepted' = EmptyBag
                        /\ pure' = FALSE
                   ELSE UNCHANGED <<max_values, entry_data, accepted, pure>>
    /\ UNCHANGED <<num_max_values, monthly_reset, binary_sensor, gate_state,
                   source_sensor_entity_id, previous_month_max_values, manual, manual_ref>>
    /\ last_op' = IF midnight'.pc = "await" \/ StatsSeen(stats).present
                 THEN "other"
                 ELSE "no_mean"
    /\ UNCHANGED fed
    /\ UNCHANGED entities
    /\ serial' = IF midnight'.pc = "await" /\ serial.values /= <<>>
                 THEN Tracked(HourlyMaxValues(serial.values, num_max_values,
                                              StatsSeen(stats), GateOpen))
                 ELSE Tracked(<<>>)
    /\ UNCHANGED sensorVars

\* async_reset_max_values_manually up to its first await (or, with no whole
\* hour since the start of the month, to its end); hours is the number of whole
\* hours between the start of the month and datetime.now()
ManualStart(hours) ==
    /\ manual.pc = "idle"
    /\ IF hours = 0
       THEN /\ max_values' = ManualStartValues(max_values, num_max_values)
            /\ entry_data' = UpdateEntry(max_values')
            /\ accepted' = EmptyBag
            /\ pure' = (max_values' = Zeros(num_max_values))
            /\ UNCHANGED <<manual, manual_ref>>
       ELSE /\ CanSuspend
            /\ manual' = [pc |-> "await", hours_left |-> hours,
                          new_max_values |-> ManualStartValues(max_values, num_max_values)]
            /\ manual_ref' = Zeros(num_max_values)
            /\ UNCHANGED <<max_values, entry_data, accepted, pure>>
    /\ UNCHANGED <<num_max_values, monthly_reset, binary_sensor, gate_state,
                   source_sensor_entity_id, previous_month_max_values, midnight,
                   midnight_ref>>
    /\ last_op' = IF manual'.pc = "await" THEN "other" ELSE "manual_done"
    /\ UNCHANGED fed
    /\ UNCHANGED entities
    /\ serial' = IF manual'.pc = "await" THEN serial ELSE Tracked(<<>>)
    /\ UNCHANGED sensorVars

\* async_reset_max_values_manually resumes with the statistics of the hour it
\* asked for: the rest of that turn of the loop and, after the last turn,
\* lines 255-261
ManualStep(stats) ==
    /\ manual.pc = "await"
    /\ LET new_max_values == ManualMaxValues(manual.new_max_values, num_max_values,
                                             StatsSeen(stats), GateOpen)
       IN  IF manual.hours_left > 1
           THEN /\ manual' = [manual EXCEPT !.hours_left = @ - 1,
                                            !.new_max_values = new_max_values]
                /\ manual_ref' = HourlyMaxValues(manual_ref, num_max_values,
                                                 StatsSeen(stats), GateOpen)
                /\ UNCHANGED <<max_values, entry_data, accepted, pure>>
           ELSE /\ manual' = Idle
                /\ manual_ref' = <<>>
                /\ max_values' = new_max_values
                /\ entry_data' = UpdateEntry(new_max_values)
                /\ accepted' = EmptyBag
                /\ pure' = (new_max_values = Zeros(num_max_values))
    /\ UNCHANGED <<num_max_values, monthly_reset, binary_sensor, gate_state,
                   source_sensor_entity_id, previous_month_max_values, midnight,
                   midnight_ref>>
    /\ last_op' = IF manual'.pc = "await" THEN "other"
                 ELSE IF StatsSeen(stats).present THEN "manual_done" ELSE "no_mean"
    /\ UNCHANGED fed
    /\ UNCHANGED entities
    /\ serial' = IF manual'.pc = "await" THEN serial ELSE Tracked(<<>>)
    /\ UNCHANGED sensorVars

(* ------------------------- the hourly sensor --------------------------- *)
\* _save_state: the blob written to the store
SavedBlob(energy, power, time, start) ==
    [present |-> TRUE, accumulated_energy |-> energy, last_power |-> power,
     last_time |-> time, hour_start |-> start]

\* now.replace(minute=0, second=0, microsecond=0)
HourOf(t) == t - (t % SecondsPerHour)

\* lines 291-293: (last_power + current_power) / 2 * delta_seconds / 3600000 kWh,
\* in units of 1/EnergyResolution kWh
DeltaEnergy(power, current_power, delta_seconds) ==
    ((power + current_power) * delta_seconds) * (EnergyResolution \div (2 * MsPerHour))

\* lines 229, 239-242: the stored state is kept, the blob is there and its
\* hour_start is absent or lies in the hour of now
BlobKept(blob, now) ==
    blob.present /\ (blob.hour_start = NoTime \/ HourOf(blob.hour_start) = HourOf(now))

\* HourlyAveragePowerSensor.async_added_to_hass, lines 226-253: the state
\* restored from stored_data at time now, as <<energy, power, time, start>>
Restored(blob, now) ==
    LET current_hour_start == HourOf(now)
        start == IF blob.hour_start /= NoTime THEN blob.hour_start ELSE NoTime
        time == IF blob.last_time /= NoTime THEN blob.last_time ELSE NoTime
    IN  IF blob.present
        THEN IF start /= NoTime /\ HourOf(start) /= current_hour_start
             THEN <<0, 0, now, current_hour_start>>
             ELSE <<blob.accumulated_energy, blob.last_power, time, start>>
        ELSE <<0, 0, now, current_hour_start>>

\* HourlyAveragePowerSensor.async_added_to_hass: restore, then register the
\* hour-start timer and the state-change listener
async_added_to_hass ==
    /\ ~added
    /\ added' = TRUE
    /\ LET r == Restored(store, clock)
       IN  /\ accumulated_energy' = r[1]
           /\ last_power' = r[2]
           /\ last_time' = r[3]
           /\ hour_start' = r[4]
    /\ timer_hour' = HourOf(clock)
    /\ samples' = <<>>
    /\ clean' = ~BlobKept(store, clock)
    /\ UNCHANGED <<clock, set_back, source_state, store, timer_now>>
    /\ UNCHANGED <<coordVars, gateVars>>

\* _async_hour_start(now), lines 255-262
_async_hour_start(now) ==
    /\ accumulated_energy' = 0
    /\ last_power' = 0
    /\ last_time' = now
    /\ hour_start' = now
    /\ store' = SavedBlob(accumulated_energy', last_power', last_time', hour_start')
    /\ samples' = <<>>
    /\ clean' = TRUE

\* async_track_time_change(minute=0, second=0) calls _async_hour_start once for
\* an hour boundary, with the time of the call (the call may come late)
HourTimer ==
    /\ added
    /\ HourOf(clock) > timer_hour
    /\ _async_hour_start(clock)
    /\ timer_hour' = HourOf(clock)
    /\ timer_now' = clock
    /\ UNCHANGED <<clock, set_back, source_state, added>>
    /\ UNCHANGED <<coordVars, gateVars>>

\* the timer delivers its last call a second time, with the same now
HourTimerAgain ==
    /\ added
    /\ timer_now /= NoTime
    /\ _async_hour_start(timer_now)
    /\ UNCHANGED <<clock, set_back, source_state, added, timer_hour, timer_now>>
    /\ UNCHANGED <<coordVars, gateVars>>

\* lines 281-285: the gate is open and the source state is a number, the
\* reading is integrated
ValidSample(src, open) == open /\ src.kind = "number"

\* mutant: a negative reading is used as it is
Clamped_AsRead(watts) == watts

\* lines 286-287: if current_power < 0: current_power = 0.0
Clamped(watts) == IF watts < 0 THEN 0 ELSE watts

\* _async_state_changed(event), lines 275-306, run at time now with the source
\* sensor in state src and the gate as open says
_async_state_changed(now, src, open) ==
    /\ IF clean /\ ValidSample(src, open) /\ Len(samples) < MaxSamples
       THEN /\ samples' = Append(samples, <<Clamped(src.watts), now>>)
            /\ clean' = TRUE
       ELSE /\ samples' = <<>>
            /\ clean' = FALSE
    /\ IF last_time = NoTime
       THEN /\ last_time' = now
            /\ UNCHANGED <<accumulated_energy, last_power, hour_start, store>>
       ELSE /\ IF open
               THEN IF src.kind \notin {"missing", "unavailable", "unknown"}
                    THEN IF src.kind = "number"
                         THEN LET current_power == Clamped(src.watts)
                                  delta_seconds == now - last_time
                              IN  /\ accumulated_energy' =
                                         IF delta_seconds > 0
                                         THEN accumulated_energy
                                              + DeltaEnergy(last_power, current_power, delta_seconds)
                                         ELSE accumulated_energy
                                  /\ last_power' = current_power
                                  /\ last_time' = now
                         ELSE /\ last_power' = 0
                              /\ UNCHANGED <<accumulated_energy, last_time>>
                    ELSE /\ last_power' = 0
                         /\ UNCHANGED <<accumulated_energy, last_time>>
               ELSE /\ last_power' = 0
                    /\ UNCHANGED <<accumulated_energy, last_time>>
            /\ UNCHANGED hour_start
            /\ store' = SavedBlob(accumulated_energy', last_power', last_time', hour_start')

\* HourlyAveragePowerSensor.native_value at time now, lines 318-327:
\* round(accumulated_energy / elapsed_hours, 3), in units of 1/KwResolution kW
native_value(now) ==
    IF hour_start = NoTime THEN 0
    ELSE LET elapsed_seconds == now - hour_start
         IN  IF elapsed_seconds > 0
             THEN RoundDiv(accumulated_energy,
                           (EnergyResolution \div (SecondsPerHour * KwResolution)) * elapsed_seconds)
             ELSE 0

\* the source sensor takes a new state and the listener runs
SourceStateChanged(src) ==
    /\ added
    /\ src /= source_state
    /\ source_state' = src
    /\ _async_state_changed(clock, src, _can_update(binary_sensor, gate_state))
    /\ UNCHANGED <<clock, set_back, added, timer_hour, timer_now>>
    /\ UNCHANGED <<coordVars, gateVars>>

\* the gating binary sensor takes a new state and the listener runs
GateStateChanged(st) ==
    /\ added
    /\ binary_sensor /= NoBinarySensor
    /\ st /= gate_state
    /\ gate_state' = st
    /\ _async_state_changed(clock, source_state, _can_update(binary_sensor, st))
    /\ UNCHANGED <<clock, set_back, source_state, added, timer_hour, timer_now>>
    /\ UNCHANGED <<coordVars, binary_sensor>>

\* time passes
Tick ==
    /\ clock + TickSeconds <= MaxTicks * TickSeconds
    /\ clock' = clock + TickSeconds
    /\ UNCHANGED <<set_back, source_state, added, accumulated_energy, last_power, last_time,
                   hour_start, store, timer_hour, timer_now, samples, clean>>
    /\ UNCHANGED <<coordVars, gateVars>>

\* the wall clock that dt_util.utcnow() reads is set back (once in a run, which
\* keeps the energy a run can gather bounded)
ClockSetBack ==
    /\ ~set_back
    /\ clock >= TickSeconds
    /\ clock' = clock - TickSeconds
    /\ set_back' = TRUE
    /\ UNCHANGED <<source_state, added, accumulated_energy, last_power, last_time,
                   hour_start, store, timer_hour, timer_now, samples, clean>>
    /\ UNCHANGED <<coordVars, gateVars>>

(* --------------------------- specification ----------------------------- *)
Next ==
    \/ \E n \in 1..MaxN : __init__(n)
    \/ async_setup_entry
    \/ \E st \in GateStates : GateChange(st)
    \/ \E stats \in StatsResults : _async_update_hourly(stats)
    \/ \E day \in Days : _async_reset_monthly(day)
    \/ \E hours \in 0..MaxHours : MidnightStart(hours)
    \/ \E stats \in StatsResults : MidnightStep(stats)
    \/ \E hours \in 0..MaxHours : ManualStart(hours)
    \/ \E stats \in StatsResults : ManualStep(stats)

Spec == Init /\ [][Next]_vars

\* the coordinator with the observer serial on
InitRace ==
    /\ InitCoordinator
    /\ serial = [tracking |-> TRUE, values |-> <<>>]
    /\ InitGate
    /\ InitHourlySensor(NoBlob, 0)

SpecRace == InitRace /\ [][Next]_vars

\* the tracker of capacity 3 fed by hand, hour after hour
InitFeed ==
    /\ num_max_values \in FeedCapacities
    /\ monthly_reset \in BOOLEAN
    /\ entry_data = [has_max_values |-> FALSE, max_values |-> <<>>]
    /\ max_values = InitMaxValues(entry_data, num_max_values)
    /\ source_sensor_entity_id = FALSE
    /\ entities = {}
    /\ previous_month_max_values = [defined |-> FALSE, values |-> <<>>]
    /\ midnight = Idle
    /\ manual = Idle
    /\ accepted = EmptyBag
    /\ pure = TRUE
    /\ midnight_ref = <<>>
    /\ manual_ref = <<>>
    /\ last_op = "init"
    /\ fed = [recording |-> TRUE, means |-> <<>>]
    /\ serial = NotSerial
    /\ InitGate
    /\ InitHourlySensor(NoBlob, 0)

NextFeed ==
    \/ async_setup_entry
    \/ \E st \in GateStates : GateChange(st)
    \/ \E stats \in FeedStats : _async_update_hourly(stats)
    \/ \E day \in Days : _async_reset_monthly(day)

SpecFeed == InitFeed /\ [][NextFeed]_vars

\* the hourly sensor, started at some time over some stored blob
InitSensor ==
    /\ InitCoordinator
    /\ serial = NotSerial
    /\ num_max_values = 1
    /\ ~monthly_reset
    /\ InitGate
    /\ \E blob \in StoredBlobs, t \in 0..TicksPerHour :
           /\ blob.last_time <= t * TickSeconds
           /\ InitHourlySensor(blob, t * TickSeconds)

NextSensor ==
    \/ async_added_to_hass
    \/ HourTimer
    \/ HourTimerAgain
    \/ \E src \in SourceStates : SourceStateChanged(src)
    \/ \E st \in GateStates : GateStateChanged(st)
    \/ Tick
    \/ ClockSetBack

SpecSensor == InitSensor /\ [][NextSensor]_vars

(* ------------------------ reference definitions ----------------------- *)
IsSortedDescending(s) == \A i \in 1..(Len(s) - 1) : s[i] >= s[i + 1]

\* the largest element of a non-empty bag
BagMax(b) == CHOOSE x \in BagToSet(b) : \A y \in BagToSet(b) : y <= x

\* the n largest elements of bag b, largest first, copies kept
RECURSIVE LargestOf(_, _)
LargestOf(b, n) ==
    IF n = 0 \/ BagToSet(b) = {} THEN <<>>
    ELSE LET m == BagMax(b)
         IN  <<m>> \o LargestOf(b (-) SetToBag({m}), n - 1)

\* a bag of n zeros
ZeroBag(n) == [x \in {0} |-> n]

\* a stored list cut or padded to n entries, its largest values kept
Resized(stored, n) == Take(stored, n) \o Zeros(n - Min(n, Len(stored)))

\* the trapezoidal integral over the consecutive pairs of a sequence of
\* <<watts, seconds>> samples, in half watt-seconds (1/EnergyResolution kWh)
RECURSIVE TrapezoidSum(_)
TrapezoidSum(ss) ==
    IF Len(ss) < 2 THEN 0
    ELSE (ss[1][1] + ss[2][1]) * (ss[2][2] - ss[1][2]) + TrapezoidSum(Tail(ss))

\* energy in half watt-seconds over seconds, as an average in 1/KwResolution kW
AverageKw(energy, seconds) ==
    RoundDiv(energy * KwResolution, 2 * WattsPerKw * seconds)

\* this step is the state-change handler run with the gate as open says and
\* the source in state src
Handles(src, open) ==
    \/ /\ SourceStateChanged(src)
       /\ open = _can_update(binary_sensor, gate_state)
    \/ /\ \E st \in GateStates : GateStateChanged(st)
       /\ src = source_state
       /\ open = _can_update(binary_sensor, gate_state')

\* an hourly mean of 0.0
ZeroStats == [present |-> TRUE, mean |-> 0]

\* the stored blob was written in the wall-clock hour of now
BlobOfHour(blob, now) ==
    blob.present /\ blob.hour_start /= NoTime /\ HourOf(blob.hour_start) = HourOf(now)

(* ------------------------------- claims -------------------------------- *)
\* C1: in every reachable state max_values is sorted in descending order, has
\* length at most N and holds only values >= 0.
C1_SnapshotInvariant ==
    /\ IsSortedDescending(max_values)
    /\ Len(max_values) <= num_max_values
    /\ \A i \in 1..Len(max_values) : max_values[i] >= 0

\* two different positive values are held, after a catch-up or a recompute
C1_Witness ==
    /\ Len(max_values) = 2
    /\ max_values[1] > max_values[2]
    /\ max_values[2] > 0
    /\ ~pure

\* C2: while only hourly updates fed the tracker since the last reset,
\* max_values is the N largest of the N initial zeros plus every accepted
\* value, in descending order, equal values kept as separate entries.
C2_TopNOfAccepted ==
    pure => max_values = LargestOf(ZeroBag(num_max_values) (+) accepted, num_max_values)

\* three values were accepted, two of them equal, and both copies are held
C2_Witness ==
    /\ pure
    /\ num_max_values = 2
    /\ BagCardinality(accepted) = 3
    /\ max_values[1] = max_values[2]
    /\ max_values[1] > 0

\* C3: an hourly update that runs while the gate is closed leaves max_values
\* and the persisted copy in the config entry unchanged.
C3_GateClosedNoChange ==
    [][\A stats \in StatsResults :
         (~GateOpen /\ _async_update_hourly(stats))
             => (max_values' = max_values /\ entry_data' = entry_data)]_vars

\* an hourly update with a usable mean has just run against a closed gate
C3_Witness ==
    /\ last_op = "hourly_gate_closed"
    /\ gate_state = "unknown"
    /\ max_values[1] > 0

\* C4: the gate is open iff no gating signal is configured or its state is
\* exactly "on", and the coordinator's and the sensors' predicates agree.
C4_GatePredicates ==
    /\ _can_update_max_values(binary_sensor, gate_state)
           <=> (binary_sensor = NoBinarySensor \/ gate_state = "on")
    /\ _can_update(binary_sensor, gate_state)
           <=> _can_update_max_values(binary_sensor, gate_state)

\* a configured gate whose state is "unknown" counts as closed
C4_Witness ==
    /\ binary_sensor /= NoBinarySensor
    /\ gate_state = "unknown"
    /\ ~_can_update_max_values(binary_sensor, gate_state)
    /\ ~_can_update(binary_sensor, gate_state)

\* C5: delivering the hourly update a second time for the same hour (same
\* mean, gate open) leaves max_values as the first delivery left it.
C5_DoubleDeliveryIdempotent ==
    [][\A stats \in StatsResults :
         (source_sensor_entity_id /\ GateOpen /\ _async_update_hourly(stats))
             => HourlyMaxValues(max_values', num_max_values, stats, GateOpen) = max_values']_vars

\* C6: a second call of the hour-start handler with the same now leaves the
\* integrator state (accumulated energy, last power, last sample time, window
\* start) as it was just before the call, also after state-change events.
C6_HourStartIdempotent ==
    [][HourTimerAgain
         => UNCHANGED <<accumulated_energy, last_power, last_time, hour_start>>]_vars

\* C7: when the monthly reset fires, the previous-period values read right
\* after it are exactly the max_values held just before it.
C7_ResetKeepsPrevious ==
    [][\A day \in Days :
         (_async_reset_monthly(day) /\ monthly_reset /\ day = 1)
             => previous_month_max_values' = [defined |-> TRUE, values |-> max_values]]_vars

\* C8 (as claimed): a construction with N over a stored list of another length
\* keeps the largest min(N, old length) stored values, cut or padded.
C8_ResizeKeepsLargest ==
    [][\A n \in 1..MaxN :
         (__init__(n) /\ entry_data.has_max_values /\ Len(entry_data.max_values) /= n)
             => max_values' = Resized(entry_data.max_values, n)]_vars

\* C8 (amended): a construction with N over a stored list of another length
\* discards the stored values and starts from N zeros; a stored list is kept
\* only when its length is N.
C8_ResizeResets ==
    [][\A n \in 1..MaxN :
         (__init__(n) /\ entry_data.has_max_values)
             => max_values' = IF Len(entry_data.max_values) /= n
                              THEN Zeros(n)
                              ELSE entry_data.max_values]_vars

\* a coordinator was just constructed over a stored list of another length
\* that holds a positive value, and its snapshot is all zeros
C8_Witness ==
    /\ last_op = "init"
    /\ entry_data.has_max_values
    /\ Len(entry_data.max_values) /= num_max_values
    /\ entry_data.max_values[1] > 0
    /\ max_values = Zeros(num_max_values)

\* C9: a manual recompute ends with the snapshot obtained from N zeros by
\* applying the hourly update's step to each hour of its range in order,
\* whatever the snapshot was before.
C9_ManualIsFoldFromReset ==
    [][/\ \A stats \in StatsResults :
            (ManualStep(stats) /\ manual'.pc = "idle")
                => max_values' = HourlyMaxValues(manual_ref, num_max_values,
                                                 StatsSeen(stats), GateOpen)
       /\ (ManualStart(0) /\ manual.pc = "idle")
                => max_values' = Zeros(num_max_values)]_vars

\* a manual recompute over two accepted hours has just ended
C9_Witness ==
    /\ last_op = "manual_done"
    /\ num_max_values = 2
    /\ max_values[1] > max_values[2]
    /\ max_values[2] > 0

\* C10: a catch-up from midnight ends with the snapshot obtained from N zeros
\* by applying the hourly update's step to each hour since midnight, whatever
\* the snapshot was before.
C10_CatchUpFromScratch ==
    [][\A stats \in StatsResults :
         (MidnightStep(stats) /\ midnight'.pc = "idle")
             => max_values' = HourlyMaxValues(midnight_ref, num_max_values,
                                              StatsSeen(stats), GateOpen)]_vars

\* C11: while a window saw only valid samples at an open gate, the accumulated
\* energy is the trapezoidal sum over the consecutive pairs of those samples,
\* and the reported average is that energy over the time since the window start.
C11_TrapezoidOverSamples ==
    clean =>
        /\ accumulated_energy = TrapezoidSum(samples)
        /\ clock > hour_start
               => native_value(clock) = AverageKw(TrapezoidSum(samples), clock - hour_start)

\* C12: the first sample handled after a window was opened adds no energy.
C12_FirstSampleOnlySeeds ==
    [][\A src \in SourceStates :
         (clean /\ samples = <<>> /\ Handles(src, TRUE) /\ src.kind = "number")
             => accumulated_energy' = accumulated_energy]_vars

\* C13: an event handled while the gate is closed leaves the accumulated energy
\* unchanged, sets the last power to 0 and moves the last-sample time to the
\* time of the event.
C13_GateClosedIsZeroSample ==
    [][\A src \in SourceStates :
         Handles(src, FALSE)
             => /\ accumulated_energy' = accumulated_energy
                /\ last_power' = 0
                /\ last_time' = clock]_vars

\* C14: a window opened at t = 0 that saw 1000 W at t = 0 and 2000 W at
\* t = 1800 s and nothing else reports 1.75 kW at t = 3600 s.
C14_HeldFlatExample ==
    (/\ clean
     /\ hour_start = 0
     /\ samples = << <<WattsPerKw, 0>>, <<2 * WattsPerKw, SecondsPerHour \div 2>> >>
     /\ clock = SecondsPerHour)
        => native_value(clock) = (7 * KwResolution) \div 4

\* C15: a tracker of capacity 3 that was reset and then took the hourly
\* averages 5.0, 8.0, 3.0 and 9.0 kW in that order at an open gate holds
\* [9.0, 8.0, 5.0], and the average of its values is 7.33.
C15_FeedExample ==
    (/\ fed.recording
     /\ num_max_values = 3
     /\ fed.means = <<5 * WattsPerKw, 8 * WattsPerKw, 3 * WattsPerKw, 9 * WattsPerKw>>)
        => /\ max_values = <<9 * KwResolution, 8 * KwResolution, 5 * KwResolution>>
           /\ AverageMax(max_values) = (733 * KwResolution) \div HundredthsPerKw

\* the four averages of the example were fed in the example's order
C15_Witness ==
    /\ fed.recording
    /\ num_max_values = 3
    /\ fed.means = <<5 * WattsPerKw, 8 * WattsPerKw, 3 * WattsPerKw, 9 * WattsPerKw>>
    /\ max_values[1] = 9 * KwResolution

\* C16: an event handled at an open gate whose source reading is no number
\* leaves the last power and the accumulated energy as they were.
C16_InvalidSampleHoldsPower ==
    [][\A src \in SourceStates :
         (src.kind /= "number" /\ last_time /= NoTime /\ Handles(src, TRUE))
             => /\ last_power' = last_power
                /\ accumulated_energy' = accumulated_energy]_vars

\* C17: a negative hourly average leaves the snapshot as an average of 0.0
\* would, in the hourly update and in one turn of the catch-up's and of the
\* manual recompute's loop, at every reachable snapshot.
C17_NegativeAsZero ==
    /\ [](\A stats \in FeedStats :
            (stats.present /\ stats.mean < 0)
                => /\ MidnightMaxValues(max_values, num_max_values, stats, GateOpen)
                       = MidnightMaxValues(max_values, num_max_values, ZeroStats, GateOpen)
                   /\ ManualMaxValues(max_values, num_max_values, stats, GateOpen)
                       = ManualMaxValues(max_values, num_max_values, ZeroStats, GateOpen))
    /\ [][\A stats \in FeedStats :
            (stats.present /\ stats.mean < 0 /\ source_sensor_entity_id
                 /\ _async_update_hourly(stats))
                => max_values' = HourlyMaxValues(max_values, num_max_values, ZeroStats, GateOpen)]_vars

\* a negative average was fed at an open gate to a snapshot that holds values
C17_Witness ==
    /\ fed.recording
    /\ Len(fed.means) = 3
    /\ fed.means[3] < 0
    /\ max_values[2] > 0
    /\ GateOpen

\* C19: after the startup restore the window start is the start of the current
\* wall-clock hour, whatever the stored blob, and the accumulated energy is 0
\* unless the blob was written in the current hour.
C19_RestoreOpensCurrentHour ==
    [][async_added_to_hass
         => /\ hour_start' = HourOf(clock)
            /\ ~BlobOfHour(store, clock) => accumulated_energy' = 0]_vars

\* C20: after the hour-start handler ran with timer time now, the window start
\* is now truncated to the hour, also when the call came late.
C20_WindowStartAligned ==
    [][/\ HourTimer => hour_start' = HourOf(clock)
       /\ HourTimerAgain => hour_start' = HourOf(timer_now)]_vars

\* C18: a turn of the catch-up's or of the manual recompute's loop whose
\* history query returns no mean leaves the loop's list as it was and goes on
\* to the next hour, or, after the last hour, to the end of the operation, as
\* the same loop without that hour would.
C18_MissingHourSkipped ==
    [][\A stats \in StatsResults :
         ~StatsSeen(stats).present
             => /\ MidnightStep(stats)
                    => IF midnight.hours_left > 1
                       THEN /\ midnight' = [midnight EXCEPT !.hours_left = @ - 1]
                            /\ max_values' = max_values
                       ELSE /\ midnight' = Idle
                            /\ max_values' = midnight.new_max_values
                /\ ManualStep(stats)
                    => IF manual.hours_left > 1
                       THEN /\ manual' = [manual EXCEPT !.hours_left = @ - 1]
                            /\ max_values' = max_values
                       ELSE /\ manual' = Idle
                            /\ max_values' = manual.new_max_values]_vars

\* a loop over two hours took the first hour's mean, found none for the second
\* and ended with the first hour's value alone
C18_Witness ==
    /\ last_op = "no_mean"
    /\ NoneInFlight
    /\ num_max_values = 2
    /\ max_values[1] > 0
    /\ max_values[2] = 0
    /\ entry_data = UpdateEntry(max_values)

\* C21: a sample whose time is earlier than the last sample time of the open
\* window changes nothing: the accumulated energy, the last power and the last
\* sample time keep their values.
C21_OutOfOrderRejected ==
    [][\A src \in SourceStates :
         (src.kind = "number" /\ last_time /= NoTime /\ clock < last_time
              /\ Handles(src, TRUE))
             => UNCHANGED <<accumulated_energy, last_power, last_time>>]_vars

\* C24: the accumulated energy is never negative, no step other than an
\* hour-start reset lowers it, and a negative reading is taken as 0.
C24_EnergyMonotone ==
    /\ [](accumulated_energy >= 0 /\ last_power >= 0)
    /\ [][~(HourTimer \/ HourTimerAgain) => accumulated_energy' >= accumulated_energy]_vars
    /\ [][\A src \in SourceStates :
            (src.kind = "number" /\ src.watts < 0 /\ last_time /= NoTime
                 /\ Handles(src, TRUE))
                => last_power' = 0]_vars

\* a negative reading was handled as the second sample of a window that had
\* gathered energy, and was recorded as 0 W
C24_Witness ==
    /\ clean
    /\ Len(samples) = 2
    /\ samples[2][1] = 0
    /\ source_state.kind = "number"
    /\ source_state.watts < 0
    /\ last_time = clock
    /\ accumulated_energy > 0

\* C22: the daily check sets max_values and the persisted copy to N zeros
\* exactly when the monthly reset is configured and it is the first day of the
\* month; otherwise it leaves both as they were.
C22_ResetOnFirstDayOnly ==
    [][\A day \in Days :
         _async_reset_monthly(day)
             => IF monthly_reset /\ day = 1
                THEN /\ max_values' = Zeros(num_max_values)
                     /\ entry_data' = UpdateEntry(Zeros(num_max_values))
                ELSE UNCHANGED <<max_values, entry_data>>]_vars

\* the reset has just cleared a snapshot that held values
C22_Witness ==
    /\ last_op = "reset"
    /\ monthly_reset
    /\ num_max_values = 2
    /\ max_values = Zeros(num_max_values)
    /\ entry_data.has_max_values
    /\ entry_data.max_values = max_values

\* C26: once async_setup_entry has run, every sensor it created is held by
\* the coordinator and is among the entities refreshed when max_values changes.
C26_AllSensorsRegistered ==
    source_sensor_entity_id
        => /\ CreatedSensors(num_max_values) \subseteq entities
           /\ CreatedSensors(num_max_values) \subseteq valid_entities

\* C25 (as claimed): whenever no catch-up or recompute is in progress, the
\* list persisted in the config entry is the in-memory max_values.
C25_EntryMatchesMemory ==
    (NoneInFlight /\ entry_data.has_max_values) => entry_data.max_values = max_values

\* C25 (amended): whenever no catch-up or recompute is in progress, the list
\* persisted in the config entry is the in-memory max_values, unless the
\* coordinator was constructed over no list or over a list of another length
\* and nothing has changed max_values since: then max_values is N zeros and
\* the entry is as the construction found it.
C25_EntryMatchesMemoryOnceWritten ==
    NoneInFlight
        => \/ /\ entry_data.has_max_values
              /\ entry_data.max_values = max_values
           \/ /\ entry_data.has_max_values => Len(entry_data.max_values) /= num_max_values
              /\ max_values = Zeros(num_max_values)

\* an hourly update, a catch-up or a recompute has written the two values the
\* coordinator holds
C25_Witness ==
    /\ NoneInFlight
    /\ num_max_values = 2
    /\ max_values[2] > 0
    /\ entry_data.has_max_values
    /\ entry_data.max_values = max_values
    /\ last_op = "other"

\* C23: a catch-up that was suspended while hourly updates ran (and no reset)
\* ends with the snapshot that the catch-up and those updates give when they
\* run one after the other, in either order.
C23_SerialOutcome ==
    [][\A stats \in StatsResults :
         (MidnightStep(stats) /\ midnight'.pc = "idle" /\ serial.values /= <<>>)
             => max_values' = HourlyMaxValues(serial.values, num_max_values,
                                              StatsSeen(stats), GateOpen)]_vars

====
